---- MODULE Spec2Model ----
(***************************************************************************)
(* A model of src/main.py: a command line tool that sends a Slack direct   *)
(* message as a user, keeps a directory of labels in a JSON config file    *)
(* and can upgrade itself.  One behaviour of Spec is one invocation of     *)
(* main(); SpecVersion exercises the version comparison on its own.        *)
(*                                                                         *)
(* A Python str is a sequence of one-character strings; None is the        *)
(* sequence NoneVal, which no str equals.                                  *)
(***************************************************************************)
EXTENDS Integers, Sequences, FiniteSets, TLC

\* ------------------------------------------------------------------------
\* Bounds
\* ------------------------------------------------------------------------
MaxVerLen == 3
MaxRc == 2

\* ------------------------------------------------------------------------
\* Python str primitives
\* ------------------------------------------------------------------------
NoneVal == <<"None">>

\* a variable nothing has been assigned to yet
Unset == <<"unset">>

Digits == {"0", "1", "2", "3", "4", "5", "6", "7", "8", "9"}

UpperLetters ==
  {"A", "B", "C", "D", "E", "F", "G", "H", "I", "J", "K", "L", "M",
   "N", "O", "P", "Q", "R", "S", "T", "U", "V", "W", "X", "Y", "Z"}

Whitespace == {" ", "\t", "\n"}

Truthy(s) == s # NoneVal /\ s # <<>>

StartsWith(s, p) == Len(s) >= Len(p) /\ SubSeq(s, 1, Len(p)) = p

Contains(s, c) == \E i \in 1..Len(s) : s[i] = c

RECURSIVE LStrip(_)
LStrip(s) ==
  IF s # <<>> /\ Head(s) \in Whitespace THEN LStrip(Tail(s)) ELSE s

RECURSIVE RStrip(_)
RStrip(s) ==
  IF s # <<>> /\ s[Len(s)] \in Whitespace
    THEN RStrip(SubSeq(s, 1, Len(s) - 1))
    ELSE s

Strip(s) == RStrip(LStrip(s))

\* " ".join(words)
RECURSIVE Join(_)
Join(words) ==
  IF words = <<>> THEN <<>>
  ELSE IF Len(words) = 1 THEN words[1]
  ELSE words[1] \o <<" ">> \o Join(Tail(words))

\* segment.split("."): the pieces between the dots, empty pieces included
RECURSIVE SplitDots(_, _)
SplitDots(s, cur) ==
  IF s = <<>> THEN <<cur>>
  ELSE IF Head(s) = "." THEN <<cur>> \o SplitDots(Tail(s), <<>>)
  ELSE SplitDots(Tail(s), Append(cur, Head(s)))

DigitValue(c) ==
  CASE c = "0" -> 0 [] c = "1" -> 1 [] c = "2" -> 2 [] c = "3" -> 3
    [] c = "4" -> 4 [] c = "5" -> 5 [] c = "6" -> 6 [] c = "7" -> 7
    [] c = "8" -> 8 [] c = "9" -> 9

\* int(digits) for a non-empty run of decimal digits
RECURSIVE IntOf(_)
IntOf(ds) ==
  IF ds = <<>> THEN 0
  ELSE 10 * IntOf(SubSeq(ds, 1, Len(ds) - 1)) + DigitValue(ds[Len(ds)])

\* the inner loop of _version_tuple: the digits up to the first non-digit
RECURSIVE LeadingDigits(_)
LeadingDigits(seg) ==
  IF seg # <<>> /\ Head(seg) \in Digits
    THEN <<Head(seg)>> \o LeadingDigits(Tail(seg))
    ELSE <<>>

\* USER_ID_RE.match(s): ^[UW][A-Z0-9]+$ ; Python's $ also matches just
\* before one trailing newline.
USER_ID_RE(s) ==
  LET body == IF s # <<>> /\ s[Len(s)] = "\n"
                THEN SubSeq(s, 1, Len(s) - 1) ELSE s
  IN  /\ s # NoneVal
      /\ Len(body) >= 2
      /\ body[1] \in {"U", "W"}
      /\ \A i \in 2..Len(body) : body[i] \in UpperLetters \cup Digits

USER_TOKEN_PREFIXES ==
  {<<"x", "o", "x", "p", "-">>, <<"x", "o", "x", "c", "-">>}

BOT_TOKEN_PREFIX == <<"x", "o", "x", "b", "-">>

\* ------------------------------------------------------------------------
\* Version comparison
\* ------------------------------------------------------------------------
\* the outer loop of _version_tuple: stop at the first segment that has no
\* leading digit
RECURSIVE VersionParts(_)
VersionParts(segs) ==
  IF segs = <<>> THEN <<>>
  ELSE LET digits == LeadingDigits(Head(segs))
       IN  IF digits = <<>> THEN <<>>
           ELSE <<IntOf(digits)>> \o VersionParts(Tail(segs))

_version_tuple_keep_prefix(version) ==
  IF ~Truthy(version) THEN <<0>>
  ELSE LET parts == VersionParts(SplitDots(Strip(version), <<>>))
       IN  IF parts = <<>> THEN <<0>> ELSE parts

_version_tuple(version) ==
  IF ~Truthy(version) THEN <<0>>
  ELSE LET stripped == Strip(version)
           body == IF StartsWith(stripped, <<"v">>)
                     THEN Tail(stripped) ELSE stripped
           parts == VersionParts(SplitDots(body, <<>>))
       IN  IF parts = <<>> THEN <<0>> ELSE parts

\* Python's tuple > tuple
RECURSIVE TupleGT(_, _)
TupleGT(a, b) ==
  IF a = <<>> THEN FALSE
  ELSE IF b = <<>> THEN TRUE
  ELSE IF Head(a) # Head(b) THEN Head(a) > Head(b)
  ELSE TupleGT(Tail(a), Tail(b))

Max(x, y) == IF x >= y THEN x ELSE y

\* t + (0,) * n
PadZeros(t, n) == t \o [i \in 1..n |-> 0]

_is_version_newer_unpadded(candidate, current) ==
  TupleGT(_version_tuple(candidate), _version_tuple(current))

_is_version_newer(candidate, current) ==
  LET cand_tuple == _version_tuple(candidate)
      curr_tuple == _version_tuple(current)
      length == Max(Len(cand_tuple), Len(curr_tuple))
  IN  TupleGT(PadZeros(cand_tuple, length - Len(cand_tuple)),
              PadZeros(curr_tuple, length - Len(curr_tuple)))

\* ------------------------------------------------------------------------
\* The strings the invocations are built from
\* ------------------------------------------------------------------------
S_U1 == <<"U", "1">>
S_U2 == <<"U", "2">>
S_U3 == <<"U", "3">>
S_U4 == <<"U", "4">>
S_U5 == <<"U", "5">>
S_U6 == <<"U", "6">>
S_U9 == <<"U", "9">>
S_U1nl == <<"U", "1", "\n">>
S_bob == <<"b", "o", "b">>
S_bob_padded == <<" ", "b", "o", "b", " ">>
S_mail == <<"a", "@", "b">>
S_mail2 == <<"c", "@", "d">>
S_junk == <<"z", "z">>
S_blank == <<" ", " ">>
S_U3_padded == <<" ", "U", "3", " ">>
S_hi == <<"h", "i">>
S_yo == <<"y", "o">>
S_D1 == <<"D", "1">>
S_ts == <<"1", ".", "5">>
S_000 == <<"0", ".", "0", ".", "0">>
S_120 == <<"1", ".", "2", ".", "0">>
S_v120 == <<"v", "1", ".", "2", ".", "0">>
S_119 == <<"1", ".", "1", ".", "9">>
S_12 == <<"1", ".", "2">>
S_100 == <<"1", ".", "0", ".", "0">>
S_v130_padded == <<" ", "v", "1", ".", "3", ".", "0", " ">>
S_v130 == <<"v", "1", ".", "3", ".", "0">>
S_V200 == <<"V", "2", ".", "0", ".", "0">>

\* ------------------------------------------------------------------------
\* JSON values.  A value is [kind, str, ents]: kind "str" carries str, kind
\* "obj" carries ents (a function from keys to values), the other kinds
\* ("null", "num", "list") carry nothing the program looks at.
\* ------------------------------------------------------------------------
EmptyDict == [k \in {} |-> k]

JStr(s) == [kind |-> "str", str |-> s, ents |-> EmptyDict]
JNum == [kind |-> "num", str |-> <<>>, ents |-> EmptyDict]
JNull == [kind |-> "null", str |-> <<>>, ents |-> EmptyDict]
JList == [kind |-> "list", str |-> <<>>, ents |-> EmptyDict]
JObj(d) == [kind |-> "obj", str |-> <<>>, ents |-> d]

\* d[k] = v on a Python dict
DictSet(d, k, v) == [x \in (DOMAIN d) \cup {k} |-> IF x = k THEN v ELSE d[x]]

\* a dict of str values as a JSON object
StrDict(d) == [k \in DOMAIN d |-> JStr(d[k])]

LabelsPlain == (S_bob :> JStr(S_U2))

LabelsMessy ==
  (<<"a">> :> JStr(S_blank)) @@ (<<"b">> :> JNum) @@
  (<<"c">> :> JStr(S_U3_padded)) @@ (<<>> :> JStr(S_U4)) @@
  (S_blank :> JStr(S_U5))

LabelsShadow ==
  (S_U1 :> JStr(S_U5)) @@ (S_mail :> JStr(S_U6)) @@ (S_bob :> JStr(S_U2))

Theme == JStr(<<"d", "a", "r", "k">>)

\* the config file on disk: absent, unreadable or not JSON ("corrupt"), or
\* a JSON document
FileAbsent == [state |-> "absent", doc |-> JNull]
FileCorrupt == [state |-> "corrupt", doc |-> JNull]
FileOf(doc) == [state |-> "json", doc |-> doc]

ConfigFiles ==
  { FileAbsent,
    FileCorrupt,
    FileOf(JNull),
    FileOf(JList),
    FileOf(JObj(EmptyDict)),
    FileOf(JObj("theme" :> Theme)),
    FileOf(JObj(("user_labels" :> JNull) @@ ("theme" :> Theme))),
    FileOf(JObj("user_labels" :> JNum)),
    FileOf(JObj(("user_labels" :> JObj(LabelsPlain)) @@ ("theme" :> Theme))),
    FileOf(JObj(("user_labels" :> JObj(LabelsMessy)) @@ ("theme" :> Theme)
                  @@ ("team" :> JNum))),
    FileOf(JObj("user_labels" :> JObj(LabelsShadow))) }

\* load_config: [err, payload]
load_config(file) ==
  IF file.state = "absent" THEN [err |-> "", payload |-> EmptyDict]
  ELSE IF file.state = "corrupt"
    THEN [err |-> "Unable to read config", payload |-> EmptyDict]
  ELSE IF file.doc.kind = "null" THEN [err |-> "", payload |-> EmptyDict]
  ELSE IF file.doc.kind # "obj"
    THEN [err |-> "Config file must contain a JSON object.",
          payload |-> EmptyDict]
  ELSE [err |-> "", payload |-> file.doc.ents]

\* save_config: the file holds the payload afterwards
save_config_labels_only(payload) ==
  FileOf(JObj("user_labels" :> payload["user_labels"]))

save_config(payload) == FileOf(JObj(payload))

\* normalize_user_labels: [err, labels]; labels maps str to str.  Every key
\* of a JSON object is a str, so isinstance(key, str) always holds.
normalize_user_labels(payload) ==
  LET labels == IF "user_labels" \in DOMAIN payload
                  THEN payload["user_labels"] ELSE JObj(EmptyDict)
  IN  IF labels.kind = "null" THEN [err |-> "", labels |-> EmptyDict]
      ELSE IF labels.kind # "obj"
        THEN [err |-> "user_labels must be a JSON object.",
              labels |-> EmptyDict]
      ELSE LET kept == {k \in DOMAIN labels.ents :
                          /\ labels.ents[k].kind = "str"
                          /\ Strip(labels.ents[k].str) # <<>>}
           IN  [err |-> "",
                labels |-> [k \in kept |-> Strip(labels.ents[k].str)]]

\* ------------------------------------------------------------------------
\* State
\* ------------------------------------------------------------------------
VARIABLES
  pc,           \* position of the invocation in main()
  version,      \* __version__
  args,         \* the parsed arguments
  cfgFile,      \* the config file on disk
  config,       \* the payload load_config returned
  user_labels,  \* the normalized label mapping
  token,        \* the token resolve_token returned
  text,         \* the message text
  user_id,      \* the resolved user id
  channel_id,   \* the channel id conversations.open returned
  callLog,      \* the Slack API calls made, in order, with their responses
  out,          \* what the invocation printed, in order
  exitCode,     \* the exit code of the process, once pc = "done"
  err,          \* the fatal message, "" when there is none
  tmp,          \* the editor's temporary file
  pending,      \* what read_from_editor is about to leave with
  editorRc,     \* the exit status of the editor
  latest,       \* what _get_latest_version returned
  upgradeRuns,  \* how many times _run_upgrade ran
  upgradeRc,    \* what _run_upgrade returned
  cand, curr, newer   \* a call of _is_version_newer and its result

vars ==
  <<pc, version, args, cfgFile, config, user_labels, token, text, user_id,
    channel_id, callLog, out, exitCode, err, tmp, pending, editorRc, latest,
    upgradeRuns, upgradeRc, cand, curr, newer>>

versionVars == <<cand, curr, newer>>
editorVars == <<tmp, pending, editorRc>>
upgradeVars == <<latest, upgradeRuns, upgradeRc>>
sendVars == <<token, text, user_id, channel_id, callLog>>
configVars == <<cfgFile, config, user_labels>>

\* ------------------------------------------------------------------------
\* What an invocation can be given
\* ------------------------------------------------------------------------
InstalledVersions == {S_000, S_120, S_12}

Recipients == {S_U1, S_U1nl, S_bob, S_mail, S_junk}

Texts == {<<>>, <<S_hi>>, <<S_hi, S_yo>>, <<S_blank>>}

NoAddUser == <<>>

AddUsers ==
  {NoAddUser} \cup
  {<<l, v>> : l \in {S_blank, S_bob_padded},
              v \in {S_blank, S_U3_padded, S_mail2, S_junk}}

\* recipient is the first positional word, text the remaining ones
ArgSets ==
  {a \in [version : BOOLEAN, upgrade : BOOLEAN,
          recipient : Recipients \cup {NoneVal}, text : Texts,
          edit : BOOLEAN, add_user : AddUsers] :
     a.recipient = NoneVal => a.text = <<>>}

Tokens ==
  { NoneVal, <<>>,
    <<"x", "o", "x", "b", "-", "1">>,
    <<"x", "o", "x", "p", "-", "1">>,
    <<"x", "o", "x", "c", "-", "1">>,
    <<"x", "o", "x", "p">>,
    <<"a", "b", "c">> }

TagNames == {NoneVal, S_v130_padded, S_120, S_blank, S_V200}
ReleaseNames == {NoneVal, S_119}

Payload(users, channel, txt, email) ==
  [users |-> users, channel |-> channel, text |-> txt, email |-> email]

NoPayload == Payload(<<>>, <<>>, <<>>, <<>>)

Response(status, bot_id, id, ts) ==
  [status |-> status, bot_id |-> bot_id, id |-> id, ts |-> ts]

FailedResponses ==
  {Response(st, FALSE, <<>>, <<>>) :
     st \in {"neterror", "http", "badjson", "notok"}}

\* the responses the Slack API can give to a method
Responses(method) ==
  FailedResponses \cup
  (CASE method = "auth.test" ->
          {Response("ok", b, <<>>, <<>>) : b \in BOOLEAN}
     [] method = "users.lookupByEmail" ->
          {Response("ok", FALSE, i, <<>>) : i \in {<<>>, S_U9}}
     [] method = "conversations.open" ->
          {Response("ok", FALSE, i, <<>>) : i \in {<<>>, S_D1}}
     [] method = "chat.postMessage" ->
          {Response("ok", FALSE, <<>>, t) : t \in {<<>>, S_ts}})

Call(method, payload, tok, resp) ==
  [method |-> method, payload |-> payload, token |-> tok, resp |-> resp]

Printed(kind, a, b, c) == [kind |-> kind, a |-> a, b |-> b, c |-> c]

\* ------------------------------------------------------------------------
\* Leaving the process
\* ------------------------------------------------------------------------
\* raise SystemExit(msg), or an exception nothing catches
Fatal(msg) == pc' = "done" /\ exitCode' = 1 /\ err' = msg

\* sys.exit(code), or main() returning (code 0)
Exit(code) == pc' = "done" /\ exitCode' = code /\ err' = ""

Goto(label) == pc' = label /\ UNCHANGED <<exitCode, err>>

\* slack_request: the fatal message for a response, "" when it returns data
slack_request_ok_unchecked(method, resp) ==
  IF resp.status = "neterror" THEN "uncaught requests exception"
  ELSE IF resp.status = "http" THEN "Slack API HTTP"
  ELSE IF resp.status = "badjson" THEN "Slack API returned invalid JSON."
  ELSE ""

slack_request(method, resp) ==
  IF resp.status = "neterror" THEN "uncaught requests exception"
  ELSE IF resp.status = "http" THEN "Slack API HTTP"
  ELSE IF resp.status = "badjson" THEN "Slack API returned invalid JSON."
  ELSE IF resp.status = "notok" THEN "Slack API error"
  ELSE ""

\* get_env: the value of the variable, None when it is unset or empty
get_env(value) == IF Truthy(value) THEN value ELSE NoneVal

\* resolve_token: the fatal message for SLACK_TOKEN, "" when it is returned
resolve_token_no_bot_check(value) ==
  LET tok == get_env(value)
  IN  IF tok = NoneVal THEN "Missing SLACK_TOKEN env var."
      ELSE IF ~\E p \in USER_TOKEN_PREFIXES \cup {BOT_TOKEN_PREFIX} :
                 StartsWith(tok, p)
        THEN "SLACK_TOKEN must be a user token (xoxp- or xoxc-)."
      ELSE ""

resolve_token(value) ==
  LET tok == get_env(value)
  IN  IF tok = NoneVal THEN "Missing SLACK_TOKEN env var."
      ELSE IF StartsWith(tok, BOT_TOKEN_PREFIX)
        THEN "Bot tokens are not supported. Use a user token."
      ELSE IF ~\E p \in USER_TOKEN_PREFIXES : StartsWith(tok, p)
        THEN "SLACK_TOKEN must be a user token (xoxp- or xoxc-)."
      ELSE ""

\* how resolve_user_id treats a recipient: "label", "id", "email" or "none"
ResolveKind_id_first(recipient, labels) ==
  IF USER_ID_RE(recipient) THEN "id"
  ELSE IF recipient \in DOMAIN labels THEN "label"
  ELSE IF Truthy(recipient) /\ Contains(recipient, "@") THEN "email"
  ELSE "none"

ResolveKind(recipient, labels) ==
  IF recipient \in DOMAIN labels THEN "label"
  ELSE IF USER_ID_RE(recipient) THEN "id"
  ELSE IF Truthy(recipient) /\ Contains(recipient, "@") THEN "email"
  ELSE "none"

\* ------------------------------------------------------------------------
\* Init: the process has started, nothing has run yet
\* ------------------------------------------------------------------------
NoArgs ==
  [version |-> FALSE, upgrade |-> FALSE, recipient |-> NoneVal,
   text |-> <<>>, edit |-> FALSE, add_user |-> NoAddUser]

NoTmp == [state |-> "none", content |-> <<>>]
NoPending == [kind |-> "none", value |-> <<>>, msg |-> ""]

Idle ==
  /\ version = S_000
  /\ args = NoArgs
  /\ config = EmptyDict
  /\ user_labels = EmptyDict
  /\ token = Unset
  /\ text = <<>>
  /\ user_id = NoneVal
  /\ channel_id = NoneVal
  /\ callLog = <<>>
  /\ out = <<>>
  /\ exitCode = 0
  /\ err = ""
  /\ tmp = NoTmp
  /\ pending = NoPending
  /\ editorRc = 0
  /\ latest = NoneVal
  /\ upgradeRuns = 0
  /\ upgradeRc = 0
  /\ cand = <<>>
  /\ curr = <<>>
  /\ newer = FALSE

Init ==
  /\ pc = "import"
  /\ cfgFile \in ConfigFiles
  /\ Idle

\* ------------------------------------------------------------------------
\* main()
\* ------------------------------------------------------------------------
\* lines 14-17: __version__ comes from _version, "0.0.0" when that fails
Import ==
  /\ pc = "import"
  /\ version' \in InstalledVersions
  /\ Goto("parse")
  /\ UNCHANGED <<args, configVars, sendVars, out, editorVars, upgradeVars,
                 versionVars>>

\* lines 332-333
ParseArgs ==
  /\ pc = "parse"
  /\ args' \in ArgSets
  /\ Goto("main")
  /\ UNCHANGED <<version, configVars, sendVars, out, editorVars, upgradeVars,
                 versionVars>>

\* lines 335-337
ShowVersion ==
  /\ pc = "main"
  /\ args.version
  /\ out' = Append(out, Printed("version", version, <<>>, <<>>))
  /\ Exit(0)
  /\ UNCHANGED <<version, args, configVars, sendVars, editorVars, upgradeVars,
                 versionVars>>

UpgradeConflict ==
  \/ Truthy(args.recipient)
  \/ args.text # <<>>
  \/ args.edit
  \/ args.add_user # NoAddUser

\* _get_latest_version: what it returns for an outcome of the request
_get_latest_version(outcome, tag_name, name) ==
  IF outcome # "ok" THEN NoneVal
  ELSE LET tag == IF Truthy(tag_name) THEN tag_name ELSE name
       IN  IF tag # NoneVal /\ Strip(tag) # <<>> THEN Strip(tag) ELSE NoneVal

\* lines 339-343
UpgradeStart ==
  /\ pc = "main"
  /\ ~args.version
  /\ args.upgrade
  /\ IF UpgradeConflict
       THEN /\ Fatal("Use -u by itself to upgrade.")
            /\ UNCHANGED latest
       ELSE /\ \E outcome \in {"neterror", "badjson", "ok"},
                  tag_name \in TagNames, name \in ReleaseNames :
                  latest' = _get_latest_version(outcome, tag_name, name)
            /\ Goto("upgrade_decide")
  /\ UNCHANGED <<version, args, configVars, sendVars, out, editorVars,
                 upgradeRuns, upgradeRc, versionVars>>

VersionKnown == Truthy(version) /\ version # S_000

AlreadyLatest_when_unknown == ~_is_version_newer(latest, version)

AlreadyLatest == VersionKnown /\ ~_is_version_newer(latest, version)

\* lines 344-363: what to print, and whether to go on to the upgrade
UpgradeDecide ==
  /\ pc = "upgrade_decide"
  /\ IF latest = NoneVal
       THEN /\ out' = Append(out, Printed("warn_no_latest", <<>>, <<>>, <<>>))
            /\ Goto("run_upgrade")
       ELSE IF AlreadyLatest
         THEN /\ out' = Append(out,
                          Printed("already_latest", version, <<>>, <<>>))
              /\ Exit(0)
         ELSE /\ out' = Append(out,
                          Printed("upgrading",
                                  IF VersionKnown THEN version ELSE <<>>,
                                  latest, <<>>))
              /\ Goto("run_upgrade")
  /\ UNCHANGED <<version, args, configVars, sendVars, editorVars, upgradeVars,
                 versionVars>>

\* _run_upgrade: the code it returns
_run_upgrade(curlFound, bashFound, curl_rc, bash_rc) ==
  IF ~curlFound THEN 1
  ELSE IF ~bashFound THEN 1
  ELSE IF curl_rc # 0 THEN curl_rc
  ELSE bash_rc

\* lines 349-350 and 364-365
RunUpgrade ==
  /\ pc = "run_upgrade"
  /\ \E curlFound \in BOOLEAN, bashFound \in BOOLEAN,
        curl_rc \in 0..MaxRc, bash_rc \in 0..MaxRc :
        LET rc == _run_upgrade(curlFound, bashFound, curl_rc, bash_rc)
        IN  /\ upgradeRc' = rc
            /\ pc' = "done"
            /\ exitCode' = rc
            /\ err' = ""
  /\ upgradeRuns' = upgradeRuns + 1
  /\ UNCHANGED <<version, args, configVars, sendVars, out, editorVars, latest,
                 versionVars>>

\* lines 367-369
LoadConfig ==
  /\ pc = "main"
  /\ ~args.version
  /\ ~args.upgrade
  /\ LET loaded == load_config(cfgFile)
         normal == normalize_user_labels(loaded.payload)
     IN  IF loaded.err # ""
           THEN /\ Fatal(loaded.err)
                /\ UNCHANGED <<config, user_labels>>
         ELSE IF normal.err # ""
           THEN /\ Fatal(normal.err)
                /\ config' = loaded.payload
                /\ UNCHANGED user_labels
         ELSE /\ Goto("loaded")
              /\ config' = loaded.payload
              /\ user_labels' = normal.labels
  /\ UNCHANGED <<version, args, cfgFile, sendVars, out, editorVars,
                 upgradeVars, versionVars>>

AddLabel == Strip(args.add_user[1])
AddValue == Strip(args.add_user[2])

\* lines 371-388, up to the token
AddUserStart ==
  /\ pc = "loaded"
  /\ args.add_user # NoAddUser
  /\ IF Truthy(args.recipient) \/ args.text # <<>> \/ args.edit
       THEN Fatal("Use --add-user by itself.") /\ UNCHANGED user_id
     ELSE IF AddLabel = <<>>
       THEN Fatal("Label cannot be empty.") /\ UNCHANGED user_id
     ELSE IF AddValue = <<>>
       THEN Fatal("User ID or email cannot be empty.") /\ UNCHANGED user_id
     ELSE IF USER_ID_RE(AddValue)
       THEN Goto("save") /\ user_id' = AddValue
     ELSE IF Contains(AddValue, "@")
       THEN Goto("resolve_token") /\ UNCHANGED user_id
     ELSE Fatal("Value must be a user ID or email.") /\ UNCHANGED user_id
  /\ UNCHANGED <<version, args, configVars, token, text, channel_id, callLog,
                 out, editorVars, upgradeVars, versionVars>>

\* lines 389-393
SaveLabel ==
  /\ pc = "save"
  /\ LET labels == DictSet(user_labels, AddLabel, user_id)
         payload == DictSet(config, "user_labels", JObj(StrDict(labels)))
     IN  /\ user_labels' = labels
         /\ config' = payload
         /\ cfgFile' = save_config(payload)
  /\ out' = Append(out, Printed("saved", AddLabel, <<>>, <<>>))
  /\ Exit(0)
  /\ UNCHANGED <<version, args, sendVars, editorVars, upgradeVars,
                 versionVars>>

\* line 395
EditTextConflict_unchecked == FALSE

EditTextConflict == args.edit /\ args.text # <<>>

\* lines 395-401
ComposeText ==
  /\ pc = "loaded"
  /\ args.add_user = NoAddUser
  /\ IF EditTextConflict
       THEN Fatal("Use either -e or provide text, not both.")
            /\ UNCHANGED text
     ELSE IF args.edit
       THEN Goto("ed_create") /\ UNCHANGED text
     ELSE Goto("check") /\ text' = Strip(Join(args.text))
  /\ UNCHANGED <<version, args, configVars, token, user_id, channel_id,
                 callLog, out, editorVars, upgradeVars, versionVars>>

\* ------------------------------------------------------------------------
\* read_from_editor
\* ------------------------------------------------------------------------
EditorContents == {<<>>, S_blank, <<" ", "h", "i", "\n">>}

\* the temporary file once the editor has exited
AfterEditor ==
  {[state |-> "exists", content |-> c] : c \in EditorContents} \cup
  {[state |-> "undecodable", content |-> <<>>],
   [state |-> "gone", content |-> <<>>]}

Raise(msg) == [kind |-> "raise", value |-> <<>>, msg |-> msg]
Return(value) == [kind |-> "return", value |-> value, msg |-> ""]

\* lines 215-216
EditorCreateTemp ==
  /\ pc = "ed_create"
  /\ tmp' = [state |-> "exists", content |-> <<>>]
  /\ Goto("ed_run")
  /\ UNCHANGED <<version, args, configVars, sendVars, out, pending, editorRc,
                 upgradeVars, versionVars>>

\* lines 219-226: EDITOR is split into words and run on the file
EditorRun ==
  /\ pc = "ed_run"
  /\ \/ /\ pending' = Raise("uncaught ValueError")
        /\ Goto("ed_finally")
        /\ UNCHANGED <<tmp, editorRc>>
     \/ /\ pending' = Raise("Editor not found")
        /\ Goto("ed_finally")
        /\ UNCHANGED <<tmp, editorRc>>
     \/ /\ editorRc' \in 0..MaxRc
        /\ tmp' \in AfterEditor
        /\ Goto("ed_read")
        /\ UNCHANGED pending
  /\ UNCHANGED <<version, args, configVars, sendVars, out, upgradeVars,
                 versionVars>>

\* lines 227-232
EditorRead ==
  /\ pc = "ed_read"
  /\ pending' =
       IF tmp.state = "gone" THEN Raise("uncaught FileNotFoundError")
       ELSE IF tmp.state = "undecodable"
         THEN Raise("uncaught UnicodeDecodeError")
       ELSE IF Strip(tmp.content) = <<>> THEN Raise("No content; cancelled.")
       ELSE Return(Strip(tmp.content))
  /\ Goto("ed_finally")
  /\ UNCHANGED <<version, args, configVars, sendVars, out, tmp, editorRc,
                 upgradeVars, versionVars>>

\* os.remove(temp_path), an OSError ignored
remove_temp_on_return(file, leaving) ==
  IF leaving.kind = "return" THEN [state |-> "gone", content |-> <<>>]
  ELSE file

remove_temp(file, leaving) == [state |-> "gone", content |-> <<>>]

\* lines 233-237, then the return or the exception goes on
EditorFinally ==
  /\ pc = "ed_finally"
  /\ tmp' = remove_temp(tmp, pending)
  /\ IF pending.kind = "return"
       THEN Goto("check") /\ text' = pending.value
       ELSE Fatal(pending.msg) /\ UNCHANGED text
  /\ UNCHANGED <<version, args, configVars, token, user_id, channel_id,
                 callLog, out, pending, editorRc, upgradeVars, versionVars>>

\* lines 403-409
CheckArgs ==
  /\ pc = "check"
  /\ IF ~Truthy(args.recipient) \/ text = <<>>
       THEN /\ out' = Append(out, Printed("help", <<>>, <<>>, <<>>))
            /\ Exit(0)
       ELSE /\ Goto("resolve_token")
            /\ UNCHANGED out
  /\ UNCHANGED <<version, args, configVars, sendVars, editorVars, upgradeVars,
                 versionVars>>

\* ------------------------------------------------------------------------
\* The Slack API steps
\* ------------------------------------------------------------------------
AddMode == args.add_user # NoAddUser

\* lines 411 and 384
ResolveToken ==
  /\ pc = "resolve_token"
  /\ \E value \in Tokens :
       LET r == resolve_token(value)
       IN  /\ token' = get_env(value)
           /\ IF r # "" THEN Fatal(r) ELSE Goto("auth")
  /\ UNCHANGED <<version, args, configVars, text, user_id, channel_id,
                 callLog, out, editorVars, upgradeVars, versionVars>>

\* lines 412 and 385: auth_test
AuthTest ==
  /\ pc = "auth"
  /\ \E resp \in Responses("auth.test") :
       /\ callLog' = Append(callLog, Call("auth.test", NoPayload, token, resp))
       /\ IF slack_request("auth.test", resp) # ""
            THEN Fatal(slack_request("auth.test", resp))
          ELSE IF resp.bot_id
            THEN Fatal("Token belongs to a bot. Use a user token.")
          ELSE Goto("resolve_user")
  /\ UNCHANGED <<version, args, configVars, token, text, user_id, channel_id,
                 out, editorVars, upgradeVars, versionVars>>

ResolveRecipient == IF AddMode THEN AddValue ELSE args.recipient
ResolveLabels == IF AddMode THEN EmptyDict ELSE user_labels
AfterResolve == IF AddMode THEN "save" ELSE "open_dm"

\* lines 414 and 386: resolve_user_id
ResolveUser ==
  /\ pc = "resolve_user"
  /\ LET kind == ResolveKind(ResolveRecipient, ResolveLabels)
     IN  \/ /\ kind = "label"
            /\ user_id' = ResolveLabels[ResolveRecipient]
            /\ Goto(AfterResolve)
            /\ UNCHANGED callLog
         \/ /\ kind = "id"
            /\ user_id' = ResolveRecipient
            /\ Goto(AfterResolve)
            /\ UNCHANGED callLog
         \/ /\ kind = "email"
            /\ \E resp \in Responses("users.lookupByEmail") :
                 /\ callLog' =
                      Append(callLog,
                             Call("users.lookupByEmail",
                                  Payload(<<>>, <<>>, <<>>, ResolveRecipient),
                                  token, resp))
                 /\ IF slack_request("users.lookupByEmail", resp) # ""
                      THEN /\ Fatal(slack_request("users.lookupByEmail", resp))
                           /\ UNCHANGED user_id
                    ELSE IF ~Truthy(resp.id)
                      THEN /\ Fatal("No user found for that email.")
                           /\ UNCHANGED user_id
                    ELSE /\ Goto(AfterResolve)
                         /\ user_id' = resp.id
         \/ /\ kind = "none"
            /\ Fatal("Recipient must be a user ID, email, or saved label.")
            /\ UNCHANGED <<user_id, callLog>>
  /\ UNCHANGED <<version, args, configVars, token, text, channel_id, out,
                 editorVars, upgradeVars, versionVars>>

\* lines 313-319 and 323: open_dm
OpenDM ==
  /\ pc = "open_dm"
  /\ \E resp \in Responses("conversations.open") :
       /\ callLog' =
            Append(callLog,
                   Call("conversations.open",
                        Payload(user_id, <<>>, <<>>, <<>>), token, resp))
       /\ IF slack_request("conversations.open", resp) # ""
            THEN /\ Fatal(slack_request("conversations.open", resp))
                 /\ UNCHANGED channel_id
          ELSE IF ~Truthy(resp.id)
            THEN /\ Fatal("Unable to open DM channel.")
                 /\ UNCHANGED channel_id
          ELSE /\ Goto("post")
               /\ channel_id' = resp.id
  /\ UNCHANGED <<version, args, configVars, token, text, user_id, out,
                 editorVars, upgradeVars, versionVars>>

\* lines 324-328 and 415-419: chat.postMessage, then the confirmation
PostMessage ==
  /\ pc = "post"
  /\ \E resp \in Responses("chat.postMessage") :
       /\ callLog' =
            Append(callLog,
                   Call("chat.postMessage",
                        Payload(<<>>, channel_id, text, <<>>), token, resp))
       /\ IF slack_request("chat.postMessage", resp) # ""
            THEN /\ Fatal(slack_request("chat.postMessage", resp))
                 /\ UNCHANGED out
            ELSE /\ out' = Append(out,
                             Printed("dm_sent", user_id, channel_id, resp.ts))
                 /\ Exit(0)
  /\ UNCHANGED <<version, args, configVars, token, text, user_id, channel_id,
                 editorVars, upgradeVars, versionVars>>

\* ------------------------------------------------------------------------
\* The invocation
\* ------------------------------------------------------------------------
Next ==
  \/ Import
  \/ ParseArgs
  \/ ShowVersion
  \/ UpgradeStart
  \/ UpgradeDecide
  \/ RunUpgrade
  \/ LoadConfig
  \/ AddUserStart
  \/ SaveLabel
  \/ ComposeText
  \/ EditorCreateTemp
  \/ EditorRun
  \/ EditorRead
  \/ EditorFinally
  \/ CheckArgs
  \/ ResolveToken
  \/ AuthTest
  \/ ResolveUser
  \/ OpenDM
  \/ PostMessage

Spec == Init /\ [][Next]_vars

TypeOK ==
  /\ pc \in {"import", "parse", "main", "upgrade_decide", "run_upgrade",
             "loaded", "save", "ed_create", "ed_run", "ed_read", "ed_finally",
             "check", "resolve_token", "auth", "resolve_user", "open_dm",
             "post", "done"}
  /\ upgradeRuns \in 0..1

\* ------------------------------------------------------------------------
\* _is_version_newer on its own: every pair of short version strings, and
\* the versions the documentation names
\* ------------------------------------------------------------------------
VersionAlphabet == {"v", "x", "1", "2", "."}

NamedVersions ==
  {S_v120, S_119, S_12, S_120, S_100, S_000, S_V200, S_v130_padded}

VersionStrings ==
  UNION {[1..n -> VersionAlphabet] : n \in 0..MaxVerLen} \cup NamedVersions

InitVersion ==
  /\ pc = "versions"
  /\ cfgFile = FileAbsent
  /\ Idle

CompareVersions ==
  /\ pc = "versions"
  /\ \E a \in VersionStrings, b \in VersionStrings :
       /\ cand' = a
       /\ curr' = b
       /\ newer' = _is_version_newer(a, b)
  /\ Goto("compared")
  /\ UNCHANGED <<version, args, configVars, sendVars, out, editorVars,
                 upgradeVars>>

NextVersion == CompareVersions

SpecVersion == InitVersion /\ [][NextVersion]_vars

\* ------------------------------------------------------------------------
\* Properties
\* ------------------------------------------------------------------------
Started == pc \notin {"import", "parse", "versions", "compared"}

Methods(log) == {log[i].method : i \in 1..Len(log)}

Kinds(printed) == {printed[i].kind : i \in 1..Len(printed)}

\* what a call asked for, without the token and the response
Asked(c) == [method |-> c.method, payload |-> c.payload]

IsPrefix(a, b) == Len(a) <= Len(b) /\ SubSeq(b, 1, Len(a)) = a

\* a Slack API step that failed
Failed(c) ==
  \/ c.resp.status # "ok"
  \/ c.method = "auth.test" /\ c.resp.bot_id
  \/ c.method = "users.lookupByEmail" /\ c.resp.id = <<>>
  \/ c.method = "conversations.open" /\ c.resp.id = <<>>

BadToken(t) ==
  \/ t = NoneVal
  \/ t = <<>>
  \/ StartsWith(t, <<"x", "o", "x", "b", "-">>)
  \/ ~(StartsWith(t, <<"x", "o", "x", "p", "-">>)
         \/ StartsWith(t, <<"x", "o", "x", "c", "-">>))

CredentialErrors ==
  {"Missing SLACK_TOKEN env var.",
   "Bot tokens are not supported. Use a user token.",
   "SLACK_TOKEN must be a user token (xoxp- or xoxc-)."}

\* C1 -- the calls of a send to a literal user id
SendToId ==
  /\ Started
  /\ ~args.version /\ ~args.upgrade /\ args.add_user = NoAddUser
  /\ USER_ID_RE(args.recipient)
  /\ args.recipient \notin DOMAIN user_labels
  /\ text # <<>>
  /\ token # Unset /\ ~BadToken(token)

SendToIdCalls ==
  <<[method |-> "auth.test", payload |-> NoPayload],
    [method |-> "conversations.open",
     payload |-> Payload(args.recipient, <<>>, <<>>, <<>>)],
    [method |-> "chat.postMessage",
     payload |-> Payload(<<>>,
                         IF Len(callLog) >= 2 THEN callLog[2].resp.id
                                              ELSE <<>>,
                         text, <<>>)]>>

\* C1: in a send invocation with a valid user token, non-empty text and a
\* recipient that matches the user-id pattern and is no saved label, the
\* Slack API calls made are always a prefix of auth.test,
\* conversations.open(users = recipient), chat.postMessage(channel = the id
\* conversations.open returned, text); when the invocation has ended and no
\* call failed they are exactly these three and the one thing printed is the
\* confirmation with the user id and the channel id; the confirmation is
\* never printed unless chat.postMessage was the last call and succeeded.
C1_SendToIdCallsInOrder ==
  SendToId =>
    /\ IsPrefix([i \in 1..Len(callLog) |-> Asked(callLog[i])], SendToIdCalls)
    /\ \A i \in 1..Len(callLog) : callLog[i].token = token
    /\ (pc = "done" /\ \A i \in 1..Len(callLog) : ~Failed(callLog[i])) =>
         /\ Len(callLog) = 3
         /\ out = <<Printed("dm_sent", args.recipient, callLog[2].resp.id,
                            callLog[3].resp.ts)>>
         /\ exitCode = 0
    /\ "dm_sent" \in Kinds(out) =>
         /\ Len(callLog) = 3
         /\ callLog[3].method = "chat.postMessage"
         /\ callLog[3].resp.status = "ok"

C1_Witness ==
  /\ SendToId
  /\ pc = "done"
  /\ args.recipient = S_U1
  /\ out = <<Printed("dm_sent", S_U1, S_D1, S_ts)>>
  /\ Len(callLog) = 3

\* C2: once SLACK_TOKEN has been read and is missing, empty, a bot token
\* or not prefixed xoxp- or xoxc-, the process has ended with a fatal
\* credential error and no Slack API call has been made.
C2_BadTokenNoCalls ==
  (token # Unset /\ BadToken(token)) =>
    /\ pc = "done"
    /\ exitCode # 0
    /\ err \in CredentialErrors
    /\ callLog = <<>>

C2_Witness ==
  /\ token = <<"x", "o", "x", "b", "-", "1">>
  /\ pc = "done"
  /\ err = "Bot tokens are not supported. Use a user token."
  /\ callLog = <<>>

\* C3: a failed Slack API step is the last call of the invocation: the
\* process has ended with a fatal error and has printed no confirmation;
\* no method is called twice; a lookup that returns no user.id ends with
\* the "no user found" error and without conversations.open or
\* chat.postMessage.
C3_FirstFailureAborts ==
  /\ \A i \in 1..Len(callLog) :
       Failed(callLog[i]) =>
         /\ i = Len(callLog)
         /\ pc = "done"
         /\ exitCode # 0
         /\ err # ""
         /\ "dm_sent" \notin Kinds(out)
         /\ "saved" \notin Kinds(out)
  /\ \A i \in 1..Len(callLog), j \in 1..Len(callLog) :
       callLog[i].method = callLog[j].method => i = j
  /\ \A i \in 1..Len(callLog) :
       (/\ callLog[i].method = "users.lookupByEmail"
        /\ callLog[i].resp.status = "ok"
        /\ callLog[i].resp.id = <<>>) =>
         /\ err = "No user found for that email."
         /\ "conversations.open" \notin Methods(callLog)
         /\ "chat.postMessage" \notin Methods(callLog)

C3_Witness ==
  /\ pc = "done"
  /\ args.recipient = S_mail
  /\ Len(callLog) = 2
  /\ callLog[2].method = "users.lookupByEmail"
  /\ callLog[2].resp = Response("ok", FALSE, <<>>, <<>>)
  /\ err = "No user found for that email."

Lookups == {i \in 1..Len(callLog) : callLog[i].method = "users.lookupByEmail"}

\* C4: whenever a user id has been resolved for a recipient R under the
\* label mapping L: if R is a key of L it is L[R] and no lookup was made
\* (also when R looks like a user id or an email); otherwise if R matches
\* the user-id pattern it is R and no lookup was made; otherwise R contains
\* "@", exactly one users.lookupByEmail call was made, for R, and the id is
\* the user.id of its response.  A lookup is made in the email case only,
\* and a recipient of none of the three forms ends the invocation with the
\* resolution error, without a call after auth.test.
C4_ResolutionPrecedence ==
  LET R == ResolveRecipient
      L == ResolveLabels
  IN  Started =>
        /\ user_id # NoneVal =>
             IF R \in DOMAIN L THEN user_id = L[R] /\ Lookups = {}
             ELSE IF USER_ID_RE(R) THEN user_id = R /\ Lookups = {}
             ELSE /\ Contains(R, "@")
                  /\ \E i \in Lookups :
                       /\ Lookups = {i}
                       /\ callLog[i].payload.email = R
                       /\ user_id = callLog[i].resp.id
        /\ Lookups # {} =>
             R \notin DOMAIN L /\ ~USER_ID_RE(R) /\ Contains(R, "@")
        /\ (/\ Len(callLog) >= 1
            /\ ~Failed(callLog[1])
            /\ pc # "resolve_user"
            /\ R \notin DOMAIN L /\ ~USER_ID_RE(R) /\ ~Contains(R, "@")) =>
             /\ pc = "done"
             /\ err = "Recipient must be a user ID, email, or saved label."
             /\ Len(callLog) = 1
             /\ user_id = NoneVal

C4_Witness ==
  /\ pc = "open_dm"
  /\ args.recipient = S_U1
  /\ S_U1 \in DOMAIN user_labels
  /\ user_id = S_U5
  /\ Len(callLog) = 1

UsageErrors ==
  {"Use -u by itself to upgrade.", "Use --add-user by itself.",
   "Use either -e or provide text, not both."}

ConfigErrors ==
  {"Unable to read config", "Config file must contain a JSON object.",
   "user_labels must be a JSON object."}

EditWithText == Started /\ args.edit /\ args.text # <<>>

TopFields(file) ==
  IF file.state = "json" /\ file.doc.kind = "obj"
    THEN file.doc.ents ELSE EmptyDict

\* C6: the config file changes only in the step that ends a successful
\* add-label invocation; after that step the file is a JSON object whose
\* user_labels maps the label to the resolved user id and whose other
\* top-level fields are those of the file that was loaded, unchanged.
C6_ConfigWrittenOnlyByAddLabel ==
  [][ /\ cfgFile' # cfgFile =>
           /\ pc = "save" /\ pc' = "done"
           /\ args.add_user # NoAddUser
           /\ exitCode' = 0 /\ err' = ""
           /\ "saved" \in Kinds(out')
      /\ (pc = "save" /\ pc' = "done") =>
           LET new == TopFields(cfgFile')
               old == TopFields(cfgFile)
           IN  /\ cfgFile'.state = "json" /\ cfgFile'.doc.kind = "obj"
               /\ "user_labels" \in DOMAIN new
               /\ new["user_labels"].kind = "obj"
               /\ AddLabel \in DOMAIN new["user_labels"].ents
               /\ new["user_labels"].ents[AddLabel] = JStr(user_id)
               /\ (DOMAIN new) \ {"user_labels"} =
                    (DOMAIN old) \ {"user_labels"}
               /\ \A k \in (DOMAIN old) \ {"user_labels"} : new[k] = old[k]
    ]_vars

C6_Witness ==
  /\ pc = "done"
  /\ "saved" \in Kinds(out)
  /\ Len(callLog) = 2
  /\ TopFields(cfgFile)["user_labels"].ents =
       (S_bob :> JStr(S_U9)) @@ (<<"c">> :> JStr(S_U3))
         @@ (<<>> :> JStr(S_U4)) @@ (S_blank :> JStr(S_U5))
  /\ TopFields(cfgFile)["theme"] = Theme
  /\ TopFields(cfgFile)["team"] = JNum

\* the user_labels object of the loaded payload
RawLabels ==
  IF "user_labels" \in DOMAIN config /\ config["user_labels"].kind = "obj"
    THEN config["user_labels"].ents ELSE EmptyDict

\* C7 as claimed: once the config is loaded, the normalized mapping holds
\* exactly the entries of user_labels whose key is a non-empty string and
\* whose value is a string that is non-empty after trimming, with the
\* value trimmed; neither it nor the user_labels an add-label persists has
\* an empty label or an empty user id.
C7_NormalizeDropsEmpty ==
  /\ pc = "loaded" =>
       LET good == {k \in DOMAIN RawLabels :
                      /\ k # <<>>
                      /\ RawLabels[k].kind = "str"
                      /\ Strip(RawLabels[k].str) # <<>>}
       IN  /\ DOMAIN user_labels = good
           /\ \A k \in good : user_labels[k] = Strip(RawLabels[k].str)
  /\ (pc = "done" /\ "saved" \in Kinds(out)) =>
       \A k \in DOMAIN TopFields(cfgFile)["user_labels"].ents :
         /\ k # <<>>
         /\ TopFields(cfgFile)["user_labels"].ents[k].str # <<>>

UpgradeFlow == Started /\ ~args.version /\ args.upgrade /\ ~UpgradeConflict

InstalledKnown == version # <<>> /\ version # S_000

RECURSIVE Pow10(_)
Pow10(n) == IF n = 0 THEN 1 ELSE 10 * Pow10(n - 1)

\* the length of the leading digit run of a component
DigitRun(seg) ==
  CHOOSE k \in 0..Len(seg) :
    /\ \A i \in 1..k : seg[i] \in Digits
    /\ k = Len(seg) \/ seg[k + 1] \notin Digits

RECURSIVE DecimalValue(_, _, _)
DecimalValue(seg, k, i) ==
  IF i > k THEN 0
  ELSE DigitValue(seg[i]) * Pow10(k - i) + DecimalValue(seg, k, i + 1)

\* the numeric components of a version string whose leading marker, if it
\* has one of the given markers, is ignored: the leading digit runs of the
\* dot-separated components, up to the first component that has none
Components(v, markers) ==
  LET stripped == Strip(v)
      body == IF stripped # <<>> /\ stripped[1] \in markers
                THEN Tail(stripped) ELSE stripped
      segs == SplitDots(body, <<>>)
      m == CHOOSE m \in 0..Len(segs) :
             /\ \A i \in 1..m : DigitRun(segs[i]) > 0
             /\ m = Len(segs) \/ DigitRun(segs[m + 1]) = 0
  IN  [i \in 1..m |-> DecimalValue(segs[i], DigitRun(segs[i]), 1)]

\* the i-th component, zero past the end
At(t, i) == IF i <= Len(t) THEN t[i] ELSE 0

\* a is strictly greater than b, component by component
Greater(a, b) ==
  \E i \in 1..Max(Len(a), Len(b)) :
    /\ At(a, i) > At(b, i)
    /\ \A j \in 1..(i - 1) : At(a, j) = At(b, j)

LetterMarkers == {"v", "V", "x"}

\* C9 as claimed: is_newer(candidate, current) is true exactly when the
\* candidate's components are strictly greater than the current one's,
\* where a leading non-digit marker of the version string is ignored.
C9_AnyMarkerIgnored ==
  pc = "compared" =>
    newer = Greater(Components(cand, LetterMarkers),
                    Components(curr, LetterMarkers))

\* C9, amended: is_newer(candidate, current) is true exactly when the
\* candidate's components are strictly greater than the current one's after
\* right-padding with zeros, where surrounding whitespace and then one
\* leading lowercase "v" are ignored, each dot-separated component
\* contributes its leading digit run, and the components end at the first
\* one without a leading digit (so a version with any other leading marker
\* counts as 0).  is_newer("v1.2.0", "1.1.9") is true, is_newer("1.2",
\* "1.2.0") and is_newer("", "1.0.0") are false, is_newer(a, a) is false
\* and is_newer(a, b) and is_newer(b, a) are never both true.
C9_IsNewer ==
  pc = "compared" =>
    /\ newer = Greater(Components(cand, {"v"}), Components(curr, {"v"}))
    /\ (cand = S_v120 /\ curr = S_119) => newer
    /\ (cand = S_12 /\ curr = S_120) => ~newer
    /\ (cand = <<>> /\ curr = S_100) => ~newer
    /\ cand = curr => ~newer
    /\ ~(newer /\ _is_version_newer(curr, cand))

C9_Witness ==
  /\ pc = "compared"
  /\ cand = S_v120
  /\ curr = S_119
  /\ newer

====
